---- MODULE Spec2Model ----
(***************************************************************************)
(* Model of the feed preview service of src/main.py: the URL validator,    *)
(* the f-string cache key, the process-wide TTL cache and the two request  *)
(* handlers (GET /preview and GET /) that share it.  Handlers are sync     *)
(* `def` endpoints, which FastAPI runs on threadpool threads, so the       *)
(* handlers of different requests interleave statement by statement.       *)
(*                                                                         *)
(* Python strings are modelled as sequences of one-character strings so    *)
(* that formatting, parsing and concatenation are computed, not assumed.   *)
(* Optional[T] is modelled as a sequence of length 0 (None) or 1.          *)
(***************************************************************************)
EXTENDS Integers, Sequences, FiniteSets, TLC

\* ------------------------------------------------------------------ bounds
NumProcs == 2        \* concurrent threadpool workers
MaxCalls == 3        \* requests served in one behaviour
MaxTime == 600       \* last clock reading considered
MaxKeyLen == 2       \* longest url suffix / tag offered to the key builder alone
MaxUrlLen == 2       \* longest authority offered to the validator alone

\* --------------------------------------------------------------- constants
CACHE_TTL == 300

\* ------------------------------------------------------- Optional[T], None
None == <<>>
Some(v) == <<v>>
Get(o) == o[1]

\* ------------------------------------------------------------ Python str
Letters == {"h", "t", "p", "s", "f", "x", "y", "N", "o", "n", "e", "H", "T", "P", "S"}
Digits == {"0", "1", "2", "3", "4", "5", "6", "7", "8", "9"}

\* str.lower() on one character
Lower(c) ==
  CASE c = "H" -> "h" [] c = "T" -> "t" [] c = "P" -> "p" [] c = "S" -> "s"
    [] c = "N" -> "n" [] OTHER -> c

LowerStr(s) == [i \in 1..Len(s) |-> Lower(s[i])]

\* str.find(c): 1-based index of the first occurrence from position `from`, 0 when absent
Find(s, cs, from) ==
  IF \E i \in from..Len(s) : s[i] \in cs
    THEN CHOOSE i \in from..Len(s) : s[i] \in cs /\ \A j \in from..(i - 1) : s[j] \notin cs
    ELSE 0

Contains(s, c) == \E i \in 1..Len(s) : s[i] = c

\* str(int) / format(int) for a non-negative int: decimal digits, no padding
DigitChar(d) == <<"0", "1", "2", "3", "4", "5", "6", "7", "8", "9">>[d + 1]

RECURSIVE IntToStr(_)
IntToStr(n) == IF n < 10 THEN <<DigitChar(n)>> ELSE IntToStr(n \div 10) \o <<DigitChar(n % 10)>>

\* a formatting that prints a missing value as the empty string
FormatOptStr_Blank(o) == IF o = None THEN <<>> ELSE Get(o)

\* format(x) of an Optional[str] inside an f-string: None prints as the text None
FormatOptStr(o) == IF o = None THEN <<"N", "o", "n", "e">> ELSE Get(o)

\* Python truthiness of Optional[str] / Optional[list]: None and empty are falsy
Truthy(o) == o # None /\ Len(Get(o)) > 0

\* ------------------------------------------------------- urllib.parse.urlparse
scheme_chars == Letters \cup Digits \cup {"+", "-", "."}

\* leading C0-control / space characters are stripped, tab / CR / LF removed
RECURSIVE Lstrip(_)
Lstrip(s) == IF Len(s) > 0 /\ s[1] \in {" ", "\n", "\t"} THEN Lstrip(Tail(s)) ELSE s

RECURSIVE RemoveUnsafe(_)
RemoveUnsafe(s) ==
  IF s = <<>> THEN <<>>
  ELSE IF s[1] \in {"\n", "\t"} THEN RemoveUnsafe(Tail(s))
  ELSE <<s[1]>> \o RemoveUnsafe(Tail(s))

\* result: scheme, netloc and whether urlsplit raised ValueError
urlparse(u) ==
  LET s0 == RemoveUnsafe(Lstrip(u))
      i == Find(s0, {":"}, 1)
      hasScheme == /\ i > 1
                   /\ s0[1] \in Letters
                   /\ \A j \in 1..(i - 1) : s0[j] \in scheme_chars
      scheme == IF hasScheme THEN LowerStr(SubSeq(s0, 1, i - 1)) ELSE <<>>
      rest == IF hasScheme THEN SubSeq(s0, i + 1, Len(s0)) ELSE s0
      hasNetloc == Len(rest) >= 2 /\ rest[1] = "/" /\ rest[2] = "/"
      d == Find(rest, {"/", "?", "#"}, 3)
      netloc == IF ~hasNetloc THEN <<>>
                ELSE IF d = 0 THEN SubSeq(rest, 3, Len(rest))
                ELSE SubSeq(rest, 3, d - 1)
      bad == \/ (Contains(netloc, "[") /\ ~Contains(netloc, "]"))
             \/ (Contains(netloc, "]") /\ ~Contains(netloc, "["))
  IN [scheme |-> scheme, netloc |-> netloc, raised |-> bad]

HTTP == <<"h", "t", "t", "p">>
HTTPS == <<"h", "t", "t", "p", "s">>

is_valid_url(u) ==
  LET result == urlparse(u)
  IN IF result.raised THEN FALSE
     ELSE /\ result.scheme # <<>>
          /\ result.netloc # <<>>
          /\ result.scheme \in {HTTP, HTTPS}

\* ------------------------------------------------------------ cache key
\* a key that leaves the size out
build_cache_key_NoSize(u, s, t) == u \o <<":">> \o FormatOptStr(t)

\* f"{url}:{size}:{xml_item_tag}"
build_cache_key(u, s, t) == u \o <<":">> \o IntToStr(s) \o <<":">> \o FormatOptStr(t)

\* options that pass on every tag that is not None, the empty one included
build_feed_logic_NotNone(t) == IF t # None THEN {<<"xml_item_tag", Get(t)>>} ELSE {}

\* {"xml_item_tag": xml_item_tag} if xml_item_tag else {}   (a dict as a set of pairs)
build_feed_logic(t) == IF Truthy(t) THEN {<<"xml_item_tag", Get(t)>>} ELSE {}

\* ---------------------------------------------------- json.dumps(v, indent=4)
\* of a list of one-character strings
RECURSIVE JoinItems(_)
JoinItems(v) ==
  IF Len(v) = 0 THEN <<>>
  ELSE <<" ", " ", " ", " ", "\"", v[1], "\"">>
       \o (IF Len(v) > 1 THEN <<",", "\n">> \o JoinItems(Tail(v)) ELSE <<>>)

json_dumps(v) ==
  IF Len(v) = 0 THEN <<"[", "]">>
  ELSE <<"[", "\n">> \o JoinItems(v) \o <<"\n", "]">>

\* ------------------------------------------------------------------ inputs
Procs == 1..NumProcs

U_ok == <<"h", "t", "t", "p", ":", "/", "/", "x">>     \* http://x
U_noscheme == <<"x">>                                  \* x
U_empty == <<>>                                        \* the empty string

Req(u, s, t) == [url |-> u, size |-> s, xml_item_tag |-> t]

\* query parameters of the calls: url (absent only on GET /), size, xml_item_tag
R_plain == Req(Some(U_ok), 5, None)
R_none == Req(Some(U_ok), 5, Some(<<"N", "o", "n", "e">>))     \* the tag spelled None
R_empty == Req(Some(U_ok), 5, Some(<<>>))                       \* xml_item_tag=
R_ten == Req(Some(U_ok), 10, None)
R_bad == Req(Some(U_noscheme), 5, None)
R_blank == Req(Some(U_empty), 5, None)                          \* url=
R_nourl == Req(None, 1, None)                                   \* GET / without a query

Requests == {R_plain, R_none, R_empty, R_ten, R_bad, R_blank, R_nourl}

\* the requests offered to concurrent workers
ConcRequests == {R_plain, R_none, R_empty, R_bad}

\* offered to the key builder alone: accepted urls http://x<suffix>, tags, and the
\* sizes of the form's select
KeyAlphabet == {":", "1"}
Strings(n) == UNION {[1..k -> KeyAlphabet] : k \in 0..n}
Sizes == {1, 5, 10, 20}
KeyUrls == {U_ok \o s : s \in Strings(MaxKeyLen)}
KeyTags == {None, Some(<<"N", "o", "n", "e">>)} \cup {Some(s) : s \in Strings(MaxKeyLen)}
KeyRequests == {Req(Some(u), s, t) : u \in KeyUrls, s \in Sizes, t \in KeyTags}

\* offered to the validator alone: optional leading blank, a scheme-like word, a
\* separator, an authority over UrlAlphabet and a tail. A closing bracket is left
\* out: what urlsplit does with a bracketed host depends on the Python release.
UrlAlphabet == {"x", ":", "@", "[", "8"}
UrlLeads == {<<>>, <<" ">>}
UrlWords == {<<>>, HTTP, HTTPS, <<"H", "T", "T", "P">>, <<"f", "t", "p">>, <<"1", "a">>}
UrlSeps == {<<>>, <<":">>, <<":", "/">>, <<":", "/", "/">>, <<"/", "/">>}
UrlAuthorities == UNION {[1..k -> UrlAlphabet] : k \in 0..MaxUrlLen}
UrlTails == {<<>>, <<"/">>, <<"/", "x">>, <<"?", "x">>}
Candidates ==
  {l \o w \o s \o a \o t :
     l \in UrlLeads, w \in UrlWords, s \in UrlSeps, a \in UrlAuthorities, t \in UrlTails}

\* what streamfeed.preview_feed can return (a list of items) or raise (a message)
Values == {<<>>, <<"a">>, <<"b">>}
Messages == {"timeout", "not a feed"}

\* elapsed seconds between two observations of time.time(): the clock is read at
\* lines 42 and 49 only, and what matters there is whether the age of an entry is
\* below, at or above CACHE_TTL; steps of 299 and 300 s give ages 0, 1, 299, 300, 301
TickSteps == {CACHE_TTL - 1, CACHE_TTL}

\* ------------------------------------------------------------------- state
VARIABLES
  cache,          \* the module-level dict: cache_key -> [data, timestamp]
  now,            \* time.time()
  pc,             \* per worker: the statement it is about to execute
  endpoint,       \* per worker: "preview" (GET /preview) or "pretty" (GET /)
  url, size, xml_item_tag,      \* per worker: the handler's arguments
  feed_logic, cache_key,        \* per worker: handler locals
  entry,          \* per worker: local of get_cached_feed
  cached_result,  \* per worker: handler local
  data,           \* per worker: handler local
  response,       \* per worker: what the last finished call sent back
  checked,        \* history: the two operands of the freshness test of line 42
  fetches, writes, probes,      \* history: side effects of the current / last call
  fetch_args,     \* history: arguments of the call's preview_feed invocation
  stored,         \* history: every entry ever assigned into the cache
  lastStore,      \* history: per key, the most recent cache_feed
  failedReq,      \* history: requests whose latest preview ended in a fetch error
  raised,         \* history: per worker, the message preview_feed raised in its call
  calls,          \* history: number of calls started
  active,         \* the workers that serve requests in this behaviour
  offered,        \* the requests clients send in this behaviour
  kr1, kr2,       \* the key builder alone: two requests ...
  key1, key2,     \* ... and the cache keys the handlers build for them
  cand,           \* the validator alone: the string handed to is_valid_url ...
  verdict         \* ... and what is_valid_url returned for it

vars == <<cache, now, pc, endpoint, url, size, xml_item_tag, feed_logic, cache_key,
          entry, cached_result, data, response, checked, fetches, writes, probes,
          fetch_args, stored, lastStore, failedReq, raised, calls, active, offered,
          kr1, kr2, key1, key2, cand, verdict>>

hist == <<stored, lastStore, failedReq, raised>>
conf == <<active, offered, kr1, kr2, key1, key2, cand, verdict>>
service == <<cache, now, pc, endpoint, url, size, xml_item_tag, feed_logic, cache_key,
             entry, cached_result, data, response, checked, fetches, writes, probes,
             fetch_args, stored, lastStore, failedReq, raised, calls, active, offered>>

InitWith(workers, reqs) ==
  /\ cache = <<>>
  /\ now = 0
  /\ pc = [p \in Procs |-> "idle"]
  /\ endpoint = [p \in Procs |-> "preview"]
  /\ url = [p \in Procs |-> None]
  /\ size = [p \in Procs |-> 1]
  /\ xml_item_tag = [p \in Procs |-> None]
  /\ feed_logic = [p \in Procs |-> {}]
  /\ cache_key = [p \in Procs |-> None]
  /\ entry = [p \in Procs |-> None]
  /\ cached_result = [p \in Procs |-> None]
  /\ data = [p \in Procs |-> None]
  /\ response = [p \in Procs |-> None]
  /\ checked = [p \in Procs |-> None]
  /\ fetches = [p \in Procs |-> 0]
  /\ writes = [p \in Procs |-> 0]
  /\ probes = [p \in Procs |-> 0]
  /\ fetch_args = [p \in Procs |-> None]
  /\ stored = {}
  /\ lastStore = <<>>
  /\ failedReq = {}
  /\ raised = [p \in Procs |-> None]
  /\ calls = 0
  /\ active = workers
  /\ offered = reqs

NoKeys ==
  /\ kr1 = R_plain
  /\ kr2 = R_plain
  /\ key1 = None
  /\ key2 = None

NoUrl ==
  /\ cand = U_ok
  /\ verdict = None

\* concurrent workers
Init == InitWith(Procs, ConcRequests) /\ NoKeys /\ NoUrl

\* one worker only: the calls of a behaviour are sequential
InitSeq == InitWith({1}, Requests) /\ NoKeys /\ NoUrl

\* no worker: only the key builder is exercised, on two accepted requests
InitKeys ==
  /\ InitWith({}, {})
  /\ kr1 \in KeyRequests
  /\ kr2 \in KeyRequests
  /\ key1 = None
  /\ key2 = None
  /\ NoUrl

\* no worker: only the validator is exercised, on one candidate string
InitUrl ==
  /\ InitWith({}, {})
  /\ NoKeys
  /\ cand \in Candidates
  /\ verdict = None

\* --------------------------------------------------------------- responses
\* the JSON body of GET /preview, a raised HTTPException(status_code, detail), or
\* the two variable parts (error_message, feed_content) of the HTML page of GET /
JsonResponse(v) ==
  [kind |-> "json", status |-> 200, body |-> Some(v), detail |-> "",
   error_message |-> "", feed_content |-> <<>>]
HTTPException(code, text) ==
  [kind |-> "exception", status |-> code, body |-> None, detail |-> text,
   error_message |-> "", feed_content |-> <<>>]
HTMLResponse(err, content) ==
  [kind |-> "html", status |-> 200, body |-> None, detail |-> "",
   error_message |-> err, feed_content |-> content]

\* what each handler sends for a value (lines 235, 240 / 75, 82) ...
Success(ep, v) ==
  IF ep = "preview" THEN JsonResponse(v) ELSE HTMLResponse("", json_dumps(v))
\* an except clause that answers with an empty result instead of the error
Failure_EmptyDefault(ep, msg) == Success(ep, <<>>)

\* ... for an exception of the try block (line 242 / 84) ...
Failure(ep, msg) ==
  IF ep = "preview" THEN HTTPException(500, "Error fetching feed: " \o msg)
  ELSE HTMLResponse("Error fetching feed: " \o msg, <<>>)
\* ... and for a url that is_valid_url rejects (line 227 / 65-67)
Invalid(ep) ==
  IF ep = "preview" THEN HTTPException(400, "Invalid URL format")
  ELSE HTMLResponse("Invalid URL format. Please provide a valid HTTP or HTTPS URL.", <<>>)

MyReq(p) == Req(url[p], size[p], xml_item_tag[p])

\* ----------------------------------------------------------------- actions
CanStart(p, r) ==
  /\ p \in active
  /\ pc[p] = "idle"
  /\ calls < MaxCalls
  /\ r \in offered

\* a request arrives: the handler's arguments are bound, the per-call history is fresh
Enter(p, ep, r) ==
  /\ calls' = calls + 1
  /\ pc' = [pc EXCEPT ![p] = "validate"]
  /\ endpoint' = [endpoint EXCEPT ![p] = ep]
  /\ url' = [url EXCEPT ![p] = r.url]
  /\ size' = [size EXCEPT ![p] = r.size]
  /\ xml_item_tag' = [xml_item_tag EXCEPT ![p] = r.xml_item_tag]
  /\ response' = [response EXCEPT ![p] = None]
  /\ fetches' = [fetches EXCEPT ![p] = 0]
  /\ writes' = [writes EXCEPT ![p] = 0]
  /\ probes' = [probes EXCEPT ![p] = 0]
  /\ raised' = [raised EXCEPT ![p] = None]
  /\ UNCHANGED <<cache, now, feed_logic, cache_key, entry, cached_result, data,
                 checked, fetch_args, stored, lastStore, failedReq, conf>>

\* GET /preview, lines 219-224: url is a required str
preview_feed_endpoint(p, r) ==
  /\ CanStart(p, r)
  /\ r.url # None
  /\ Enter(p, "preview", r)

\* GET /, lines 52-59: url is Optional[str]
pretty_preview(p, r) ==
  /\ CanStart(p, r)
  /\ Enter(p, "pretty", r)

\* the handler returns or raises: its arguments and locals are gone
Finish(p, resp) ==
  /\ pc' = [pc EXCEPT ![p] = "idle"]
  /\ response' = [response EXCEPT ![p] = Some(resp)]
  /\ endpoint' = [endpoint EXCEPT ![p] = "preview"]
  /\ url' = [url EXCEPT ![p] = None]
  /\ size' = [size EXCEPT ![p] = 1]
  /\ xml_item_tag' = [xml_item_tag EXCEPT ![p] = None]
  /\ feed_logic' = [feed_logic EXCEPT ![p] = {}]
  /\ cache_key' = [cache_key EXCEPT ![p] = None]
  /\ cached_result' = [cached_result EXCEPT ![p] = None]
  /\ data' = [data EXCEPT ![p] = None]
  /\ checked' = [checked EXCEPT ![p] = None]
  /\ fetch_args' = [fetch_args EXCEPT ![p] = None]

\* line 62: if url   (only GET / has it)
HasUrl(ep, u) == ep = "preview" \/ Truthy(u)

\* validation left out of the form handler
Rejects_PreviewOnly(ep, u) == ep = "preview" /\ ~is_valid_url(u)

\* line 226 / 64: if not is_valid_url(url)
Rejects(ep, u) == ~is_valid_url(u)

\* lines 225-233 / 62-73: validate, build feed_logic and cache_key, call get_cached_feed
validate_url(p) ==
  /\ p \in active
  /\ pc[p] = "validate"
  /\ IF ~HasUrl(endpoint[p], url[p])
       THEN Finish(p, HTMLResponse("", <<>>))
       ELSE IF Rejects(endpoint[p], Get(url[p]))
         THEN Finish(p, Invalid(endpoint[p]))
         ELSE /\ feed_logic' = [feed_logic EXCEPT ![p] = build_feed_logic(xml_item_tag[p])]
              /\ cache_key' = [cache_key EXCEPT ![p] =
                   Some(build_cache_key(Get(url[p]), size[p], xml_item_tag[p]))]
              /\ pc' = [pc EXCEPT ![p] = "get_member"]
              /\ UNCHANGED <<endpoint, url, size, xml_item_tag, cached_result, data,
                             response, checked, fetch_args>>
  /\ UNCHANGED <<cache, now, entry, fetches, writes, probes, hist, calls, conf>>

\* get_cached_feed returns v to the handler (line 43 or 44, back to 233 / 73)
GetReturns(p, v) ==
  /\ cached_result' = [cached_result EXCEPT ![p] = v]
  /\ entry' = [entry EXCEPT ![p] = None]
  /\ pc' = [pc EXCEPT ![p] = "if_cached"]

\* a lookup that first takes a lock which a call keeps from its lookup to its
\* return, over the fetch
get_cached_feed_member_Locked(p) ==
  /\ p \in active
  /\ pc[p] = "get_member"
  /\ \A q \in Procs \ {p} :
       pc[q] \notin {"get_entry", "get_check", "get_data", "if_cached", "fetch", "store"}
  /\ probes' = [probes EXCEPT ![p] = @ + 1]
  /\ IF Get(cache_key[p]) \in DOMAIN cache
       THEN /\ pc' = [pc EXCEPT ![p] = "get_entry"]
            /\ UNCHANGED <<cached_result, entry>>
       ELSE GetReturns(p, None)
  /\ UNCHANGED <<cache, now, endpoint, url, size, xml_item_tag, feed_logic, cache_key,
                 data, response, checked, fetches, writes, fetch_args,
                 hist, calls, conf>>

\* line 40: if cache_key in cache
get_cached_feed_member(p) ==
  /\ p \in active
  /\ pc[p] = "get_member"
  /\ probes' = [probes EXCEPT ![p] = @ + 1]
  /\ IF Get(cache_key[p]) \in DOMAIN cache
       THEN /\ pc' = [pc EXCEPT ![p] = "get_entry"]
            /\ UNCHANGED <<cached_result, entry>>
       ELSE GetReturns(p, None)
  /\ UNCHANGED <<cache, now, endpoint, url, size, xml_item_tag, feed_logic, cache_key,
                 data, response, checked, fetches, writes, fetch_args,
                 hist, calls, conf>>

\* line 41: entry = cache[cache_key]   (a KeyError if the key is gone by now)
get_cached_feed_entry(p) ==
  /\ p \in active
  /\ pc[p] = "get_entry"
  /\ IF Get(cache_key[p]) \in DOMAIN cache
       THEN /\ entry' = [entry EXCEPT ![p] = Some(cache[Get(cache_key[p])])]
            /\ pc' = [pc EXCEPT ![p] = "get_check"]
            /\ UNCHANGED <<endpoint, url, size, xml_item_tag, feed_logic, cache_key,
                           cached_result, data, response, checked, fetch_args>>
       ELSE /\ Finish(p, HTTPException(500, "Internal Server Error"))
            /\ UNCHANGED entry
  /\ UNCHANGED <<cache, now, fetches, writes, probes, hist, calls, conf>>

\* a freshness test that keeps the entry one tick too long
IsFresh_Inclusive(e, t) == t - e.timestamp <= CACHE_TTL

\* line 42: time.time() - entry["timestamp"] < CACHE_TTL
IsFresh(e, t) == t - e.timestamp < CACHE_TTL

\* a freshness test that deletes the entry it finds expired (lazy eviction)
get_cached_feed_check_Evict(p) ==
  /\ p \in active
  /\ pc[p] = "get_check"
  /\ checked' = [checked EXCEPT ![p] = Some([timestamp |-> Get(entry[p]).timestamp, at |-> now])]
  /\ IF IsFresh(Get(entry[p]), now)
       THEN /\ pc' = [pc EXCEPT ![p] = "get_data"]
            /\ UNCHANGED <<cached_result, entry, cache>>
       ELSE /\ GetReturns(p, None)
            /\ cache' = [x \in DOMAIN cache \ {Get(cache_key[p])} |-> cache[x]]
  /\ UNCHANGED <<now, endpoint, url, size, xml_item_tag, feed_logic, cache_key,
                 data, response, fetches, writes, probes, fetch_args,
                 hist, calls, conf>>

\* line 42: if the entry is fresh go on to line 43, else fall through to line 44
get_cached_feed_check(p) ==
  /\ p \in active
  /\ pc[p] = "get_check"
  /\ checked' = [checked EXCEPT ![p] = Some([timestamp |-> Get(entry[p]).timestamp, at |-> now])]
  /\ IF IsFresh(Get(entry[p]), now)
       THEN /\ pc' = [pc EXCEPT ![p] = "get_data"]
            /\ UNCHANGED <<cached_result, entry>>
       ELSE GetReturns(p, None)
  /\ UNCHANGED <<cache, now, endpoint, url, size, xml_item_tag, feed_logic, cache_key,
                 data, response, fetches, writes, probes, fetch_args,
                 hist, calls, conf>>

\* the data read again from the shared dict instead of the local entry
ReadData_Reread(p) == cache[Get(cache_key[p])].data

\* line 43: entry["data"]
ReadData(p) == Get(entry[p]).data

\* a read that restamps the entry it returns (sliding expiration)
get_cached_feed_data_Sliding(p) ==
  /\ p \in active
  /\ pc[p] = "get_data"
  /\ GetReturns(p, Some(ReadData(p)))
  /\ cache' = [x \in DOMAIN cache |->
                 IF x = Get(cache_key[p]) THEN [cache[x] EXCEPT !.timestamp = now]
                 ELSE cache[x]]
  /\ UNCHANGED <<now, endpoint, url, size, xml_item_tag, feed_logic, cache_key,
                 data, response, checked, fetches, writes, probes, fetch_args,
                 hist, calls, conf>>

\* line 43: return entry["data"]
get_cached_feed_data(p) ==
  /\ p \in active
  /\ pc[p] = "get_data"
  /\ GetReturns(p, Some(ReadData(p)))
  /\ UNCHANGED <<cache, now, endpoint, url, size, xml_item_tag, feed_logic, cache_key,
                 data, response, checked, fetches, writes, probes, fetch_args,
                 hist, calls, conf>>

\* line 234 / 74: if cached_result
IsHit(v) == Truthy(v)

\* lines 234-238 / 74-78: return the cached value, or enter preview_feed
if_cached_result(p) ==
  /\ p \in active
  /\ pc[p] = "if_cached"
  /\ IF IsHit(cached_result[p])
       THEN /\ Finish(p, Success(endpoint[p], Get(cached_result[p])))
            /\ failedReq' = failedReq \ {MyReq(p)}
            /\ UNCHANGED fetches
       ELSE /\ pc' = [pc EXCEPT ![p] = "fetch"]
            /\ fetches' = [fetches EXCEPT ![p] = @ + 1]
            /\ fetch_args' = [fetch_args EXCEPT ![p] =
                 Some([url |-> Get(url[p]), feed_logic |-> feed_logic[p], limit_rows |-> size[p]])]
            /\ UNCHANGED <<endpoint, url, size, xml_item_tag, feed_logic, cache_key,
                           cached_result, data, response, checked, failedReq>>
  /\ UNCHANGED <<cache, now, entry, writes, probes, stored, lastStore, raised, calls, conf>>

\* line 238 / 78: preview_feed returns the parsed items
preview_feed_returns(p, v) ==
  /\ p \in active
  /\ pc[p] = "fetch"
  /\ v \in Values
  /\ data' = [data EXCEPT ![p] = Some(v)]
  /\ pc' = [pc EXCEPT ![p] = "store"]
  /\ UNCHANGED <<cache, now, endpoint, url, size, xml_item_tag, feed_logic, cache_key,
                 entry, cached_result, response, checked, fetches, writes, probes,
                 fetch_args, hist, calls, conf>>

\* an except clause that drops the entry of the key whose fetch failed
OnFetchError_Evict(c, k, msg) == [x \in DOMAIN c \ {k} |-> c[x]]

\* what the except clause of lines 241-242 / 83-84 leaves in the cache
OnFetchError(c, k, msg) == c

\* a handler that calls preview_feed a second time before giving up
preview_feed_raises_Retry(p, msg) ==
  /\ p \in active
  /\ pc[p] = "fetch"
  /\ msg \in Messages
  /\ IF fetches[p] < 2
       THEN /\ fetches' = [fetches EXCEPT ![p] = @ + 1]
            /\ UNCHANGED <<cache, pc, endpoint, url, size, xml_item_tag, feed_logic,
                           cache_key, cached_result, data, response, checked,
                           fetch_args, failedReq, raised>>
       ELSE /\ cache' = OnFetchError(cache, Get(cache_key[p]), msg)
            /\ Finish(p, Failure(endpoint[p], msg))
            /\ failedReq' = failedReq \cup {MyReq(p)}
            /\ raised' = [raised EXCEPT ![p] = Some(msg)]
            /\ UNCHANGED fetches
  /\ UNCHANGED <<now, entry, writes, probes, stored, lastStore, calls, conf>>

\* line 238 / 78 raises; lines 241-242 / 83-84 turn it into the error response
preview_feed_raises(p, msg) ==
  /\ p \in active
  /\ pc[p] = "fetch"
  /\ msg \in Messages
  /\ cache' = OnFetchError(cache, Get(cache_key[p]), msg)
  /\ Finish(p, Failure(endpoint[p], msg))
  /\ failedReq' = failedReq \cup {MyReq(p)}
  /\ raised' = [raised EXCEPT ![p] = Some(msg)]
  /\ UNCHANGED <<now, entry, fetches, writes, probes, stored, lastStore, calls, conf>>

\* an entry that is not stamped with the time of the store
NewEntry_Unstamped(d, t) == [data |-> d, timestamp |-> 0]

\* line 49: {"data": data, "timestamp": time.time()}
NewEntry(d, t) == [data |-> d, timestamp |-> t]

\* a store that keeps an entry already present (dict.setdefault)
Assign_KeepFirst(c, k, e) == IF k \in DOMAIN c THEN c ELSE [x \in DOMAIN c \cup {k} |-> IF x = k THEN e ELSE c[x]]

\* a store that leaves an unexpired entry alone
Assign_SkipFresh(c, k, e) ==
  IF k \in DOMAIN c /\ e.timestamp - c[k].timestamp < CACHE_TTL THEN c
  ELSE [x \in DOMAIN c \cup {k} |-> IF x = k THEN e ELSE c[x]]

\* line 49: cache[cache_key] = ...
Assign(c, k, e) == [x \in DOMAIN c \cup {k} |-> IF x = k THEN e ELSE c[x]]

\* a form handler that returns the fetched data without caching it
cache_feed_PreviewOnly(p) ==
  /\ p \in active
  /\ pc[p] = "store"
  /\ LET k == Get(cache_key[p])
         e == NewEntry(Get(data[p]), now)
         does == endpoint[p] = "preview"
     IN /\ cache' = IF does THEN Assign(cache, k, e) ELSE cache
        /\ stored' = IF does
                       THEN stored \cup {[key |-> k, data |-> e.data, timestamp |-> e.timestamp]}
                       ELSE stored
        /\ lastStore' = IF does
                          THEN [x \in DOMAIN lastStore \cup {k} |->
                                  IF x = k THEN [data |-> Get(data[p]), timestamp |-> now]
                                  ELSE lastStore[x]]
                          ELSE lastStore
  /\ writes' = [writes EXCEPT ![p] = @ + 1]
  /\ Finish(p, Success(endpoint[p], Get(data[p])))
  /\ failedReq' = failedReq \ {MyReq(p)}
  /\ UNCHANGED <<now, entry, fetches, probes, raised, calls, conf>>

\* lines 239-240 / 80-82: cache_feed(cache_key, data), then the handler returns data.
\* The dict literal (with its time.time()) and the subscript store are one statement
\* with nothing shared read in between, taken here as one step.
cache_feed(p) ==
  /\ p \in active
  /\ pc[p] = "store"
  /\ LET k == Get(cache_key[p])
         e == NewEntry(Get(data[p]), now)
     IN /\ cache' = Assign(cache, k, e)
        /\ stored' = stored \cup {[key |-> k, data |-> e.data, timestamp |-> e.timestamp]}
        /\ lastStore' = [x \in DOMAIN lastStore \cup {k} |->
                           IF x = k THEN [data |-> Get(data[p]), timestamp |-> now]
                           ELSE lastStore[x]]
  /\ writes' = [writes EXCEPT ![p] = @ + 1]
  /\ Finish(p, Success(endpoint[p], Get(data[p])))
  /\ failedReq' = failedReq \ {MyReq(p)}
  /\ UNCHANGED <<now, entry, fetches, probes, raised, calls, conf>>

\* time passes
Tick(d) ==
  /\ d \in TickSteps
  /\ now + d <= MaxTime
  /\ now' = now + d
  /\ UNCHANGED <<cache, pc, endpoint, url, size, xml_item_tag, feed_logic, cache_key,
                 entry, cached_result, data, response, checked, fetches, writes, probes,
                 fetch_args, hist, calls, conf>>

Next ==
  \/ \E p \in Procs, r \in Requests : preview_feed_endpoint(p, r)
  \/ \E p \in Procs, r \in Requests : pretty_preview(p, r)
  \/ \E p \in Procs : validate_url(p)
  \/ \E p \in Procs : get_cached_feed_member(p)
  \/ \E p \in Procs : get_cached_feed_entry(p)
  \/ \E p \in Procs : get_cached_feed_check(p)
  \/ \E p \in Procs : get_cached_feed_data(p)
  \/ \E p \in Procs : if_cached_result(p)
  \/ \E p \in Procs, v \in Values : preview_feed_returns(p, v)
  \/ \E p \in Procs, msg \in Messages : preview_feed_raises(p, msg)
  \/ \E p \in Procs : cache_feed(p)
  \/ \E d \in TickSteps : Tick(d)

\* lines 226-230 applied to two requests: both pass is_valid_url, both keys are built
BuildKeys ==
  /\ key1 = None
  /\ is_valid_url(Get(kr1.url)) /\ is_valid_url(Get(kr2.url))
  /\ key1' = Some(build_cache_key(Get(kr1.url), kr1.size, kr1.xml_item_tag))
  /\ key2' = Some(build_cache_key(Get(kr2.url), kr2.size, kr2.xml_item_tag))
  /\ UNCHANGED <<service, kr1, kr2, cand, verdict>>

NextKeys == BuildKeys

\* lines 26-35 applied to one string: is_valid_url(url) returns
check_url ==
  /\ verdict = None
  /\ verdict' = Some(is_valid_url(cand))
  /\ UNCHANGED <<service, kr1, kr2, key1, key2, cand>>

NextUrl == check_url

Spec == Init /\ [][Next]_vars

\* the key builder alone
SpecKeys == InitKeys /\ [][NextKeys]_vars

\* the validator alone
SpecUrl == InitUrl /\ [][NextUrl]_vars

\* the same program with a single worker: calls are sequential
SpecSeq == InitSeq /\ [][Next]_vars

TypeOK ==
  /\ now \in 0..MaxTime
  /\ calls \in 0..MaxCalls
  /\ \A p \in Procs : pc[p] \in {"idle", "validate", "get_member", "get_entry", "get_check",
                                  "get_data", "if_cached", "fetch", "store"}

\* ================================================================ properties
InCall(p) == pc[p] \in {"if_cached", "fetch", "store"}     \* get_cached_feed has returned

\* C1 (cache idempotence): whenever get_cached_feed finds an unexpired entry under
\* the request's key and returns its value (the empty list included), the handler
\* returns that value and makes no call of preview_feed: no worker is inside
\* preview_feed with a value from the cache in hand.
C1_HitMakesNoFetch ==
  \A p \in Procs : pc[p] = "fetch" => cached_result[p] = None

\* C2 (TTL expiry boundary): an entry stamped t and tested at time t' is returned
\* by get_cached_feed when t' - t < CACHE_TTL (the value of an entry stored under
\* that key with stamp t), and is absent when t' - t >= CACHE_TTL, the boundary
\* t' = t + CACHE_TTL included; in the second case the handler goes on to invoke
\* preview_feed.
C2_TTLBoundary ==
  \A p \in Procs :
    (InCall(p) /\ checked[p] # None) =>
      LET c == Get(checked[p])
      IN /\ (c.at - c.timestamp < CACHE_TTL) =>
              /\ cached_result[p] # None
              /\ \E e \in stored : /\ e.key = Get(cache_key[p])
                                   /\ e.timestamp = c.timestamp
                                   /\ e.data = Get(cached_result[p])
         /\ (c.at - c.timestamp >= CACHE_TTL) =>
              /\ cached_result[p] = None
              /\ (pc[p] # "if_cached" => fetches[p] = 1)

\* C2 witness: an entry tested exactly CACHE_TTL after its stamp was absent and the
\* worker is inside preview_feed again.
C2_Witness ==
  \E p \in Procs :
    /\ pc[p] = "fetch"
    /\ checked[p] # None
    /\ Get(checked[p]).at - Get(checked[p]).timestamp = CACHE_TTL
    /\ fetches[p] = 1

\* ---------------------------------------------------- reading a response
ValidUrl(u) == u # None /\ is_valid_url(Get(u))

IsInvalidURL(resp) ==
  \/ resp.kind = "exception" /\ resp.status = 400 /\ resp.detail = "Invalid URL format"
  \/ /\ resp.kind = "html"
     /\ resp.error_message = "Invalid URL format. Please provide a valid HTTP or HTTPS URL."
     /\ resp.feed_content = <<>>

FetchErrorTexts == {"Error fetching feed: " \o m : m \in Messages}

IsFetchError(resp) ==
  \/ resp.kind = "exception" /\ resp.status = 500 /\ resp.detail \in FetchErrorTexts
  \/ resp.kind = "html" /\ resp.error_message \in FetchErrorTexts /\ resp.feed_content = <<>>

IsSuccess(resp) ==
  \/ resp.kind = "json" /\ resp.body # None
  \/ resp.kind = "html" /\ resp.error_message = "" /\ resp.feed_content # <<>>

\* the form page with neither an error nor a feed
IsBlankPage(resp) ==
  resp.kind = "html" /\ resp.error_message = "" /\ resp.feed_content = <<>>

Done(p) == pc[p] = "idle" /\ response[p] # None

\* C3 (no negative caching): the step in which preview_feed fails stores nothing,
\* and a later preview of a request whose latest preview ended in a fetch error,
\* with no successful preview of that request since, invokes preview_feed again
\* (it does not return from the cache).
C3_NoNegativeCaching ==
  [][\A p \in Procs :
       /\ (pc[p] = "fetch" /\ pc'[p] = "idle") => cache' = cache
       /\ (pc[p] = "if_cached" /\ MyReq(p) \in failedReq) => pc'[p] \in {"if_cached", "fetch"}
    ]_vars

\* the call of worker p leaves validation having touched nothing
ShortCircuits(p) ==
  /\ pc'[p] = "idle"
  /\ response'[p] # None
  /\ probes'[p] = 0
  /\ fetches'[p] = 0
  /\ writes'[p] = 0
  /\ cache' = cache

\* C4 as claimed (invalid URL short-circuit): every call whose url fails
\* is_valid_url ends in InvalidURL without probing the cache, without invoking
\* preview_feed and with the cache unchanged.
C4_InvalidURLShortCircuit ==
  [][\A p \in Procs :
       (pc[p] = "validate" /\ pc'[p] # "validate" /\ ~ValidUrl(url[p])) =>
         /\ ShortCircuits(p)
         /\ IsInvalidURL(Get(response'[p]))
    ]_vars

\* C4 amended: every call whose url fails is_valid_url ends without probing the
\* cache, without invoking preview_feed and with the cache unchanged; GET /preview
\* answers InvalidURL, and GET / answers InvalidURL when the url is a non-empty
\* string but renders the empty form, with no error, when the url is missing or
\* empty.
C4_InvalidURLAmended ==
  [][\A p \in Procs :
       (pc[p] = "validate" /\ pc'[p] # "validate" /\ ~ValidUrl(url[p])) =>
         /\ ShortCircuits(p)
         /\ IF endpoint[p] = "pretty" /\ (url[p] = None \/ Get(url[p]) = <<>>)
              THEN IsBlankPage(Get(response'[p]))
              ELSE IsInvalidURL(Get(response'[p]))
    ]_vars

\* C4 witness: a call was refused as InvalidURL while the cache held an entry, and
\* it neither probed the cache nor fetched.
C4_Witness ==
  \E p \in Procs :
    /\ Done(p)
    /\ IsInvalidURL(Get(response[p]))
    /\ probes[p] = 0 /\ fetches[p] = 0 /\ writes[p] = 0
    /\ DOMAIN cache # {}

\* the side effects of worker p's current or last call are within bounds
EffectsBounded(p) ==
  /\ fetches[p] \in {0, 1}
  /\ writes[p] \in {0, 1}
  /\ writes[p] <= fetches[p]
  /\ writes[p] = 1 => Done(p) /\ IsSuccess(Get(response[p]))
  /\ Done(p) =>
       LET resp == Get(response[p])
       IN IF IsSuccess(resp)
            THEN <<fetches[p], writes[p]>> \in {<<0, 0>>, <<1, 1>>}
            ELSE IF IsFetchError(resp)
              THEN <<fetches[p], writes[p]>> = <<1, 0>>
              ELSE <<fetches[p], writes[p]>> = <<0, 0>>

\* C5 (per-call side-effect bounds): a call invokes preview_feed at most once and
\* writes the cache at most once; a hit does neither, a successful miss does both,
\* a failed miss fetches and does not write; and the cache changes only in the
\* cache_feed step of a call whose own fetch has returned a value.
C5_SideEffectBounds ==
  [][/\ \A p \in Procs : EffectsBounded(p)'
     /\ cache' # cache =>
          \E p \in Procs : /\ pc[p] = "store"
                           /\ data[p] # None
                           /\ fetches[p] = 1
                           /\ writes[p] = 0 /\ writes'[p] = 1
    ]_vars

\* C5 witness: a finished call that fetched once and wrote once.
C5_Witness ==
  \E p \in Procs :
    /\ Done(p)
    /\ IsSuccess(Get(response[p]))
    /\ fetches[p] = 1 /\ writes[p] = 1

\* ------------------------------------------------------------- key builder
KeysBuilt == key1 # None /\ key2 # None

\* C6 (cache-key injectivity): the keys built for two requests are equal if and
\* only if the requests have the same url, size and xml_item_tag.
C6_KeyInjective ==
  KeysBuilt => (key1 = key2 <=> kr1 = kr2)

\* C7 (key discrimination on size and tag): for a fixed url, two requests that
\* differ only in size get different keys, and two requests whose tags are both
\* present strings get different keys whenever their tags differ while their sizes
\* agree (and, with both tags present, whenever size or tag differs at all).
C7_KeyDiscriminates ==
  (KeysBuilt /\ kr1.url = kr2.url) =>
    /\ (kr1.xml_item_tag = kr2.xml_item_tag /\ kr1.size # kr2.size) => key1 # key2
    /\ (/\ kr1.xml_item_tag # None /\ kr2.xml_item_tag # None
        /\ kr1.xml_item_tag # kr2.xml_item_tag
        /\ kr1.size = kr2.size) => key1 # key2
    /\ (/\ kr1.xml_item_tag # None /\ kr2.xml_item_tag # None
        /\ kr1 # kr2) => key1 # key2

\* C7 witness: keys were built for one url with sizes 1 and 10 and the tags "1:"
\* and ":" (present, different), and they differ.
C7_Witness ==
  /\ KeysBuilt
  /\ kr1.url = kr2.url
  /\ kr1.size = 1 /\ kr2.size = 10
  /\ kr1.xml_item_tag = Some(<<"1", ":">>) /\ kr2.xml_item_tag = Some(<<":">>)
  /\ key1 # key2

\* ------------------------------------------------------------ stores, races
\* the response carries exactly the items v
Carries(resp, ep, v) ==
  IF ep = "preview"
    THEN resp.kind = "json" /\ resp.status = 200 /\ resp.body = Some(v)
    ELSE resp.kind = "html" /\ resp.error_message = "" /\ resp.feed_content = json_dumps(v)

\* C8 (successful miss stores and passes through): when a call missed the cache and
\* preview_feed returned v, the call answers exactly v, and right after its
\* cache_feed step the cache holds under the call's key the entry with data v and
\* the time of that step as timestamp, which get_cached_feed would return as fresh;
\* the cache is untouched between the fetch returning and that step of the call.
C8_MissStoresAndPassesThrough ==
  [][\A p \in Procs :
       /\ (pc[p] = "fetch" /\ pc'[p] = "store") =>
            /\ data'[p] # None /\ Get(data'[p]) \in Values
            /\ cache' = cache
       /\ (pc[p] = "store" /\ pc'[p] = "idle") =>
            LET v == Get(data[p])
                k == Get(cache_key[p])
            IN /\ response'[p] # None
               /\ Carries(Get(response'[p]), endpoint[p], v)
               /\ k \in DOMAIN cache'
               /\ cache'[k].data = v
               /\ cache'[k].timestamp = now'
               /\ now' - cache'[k].timestamp < CACHE_TTL
               /\ \A x \in DOMAIN cache' : x = k \/ (x \in DOMAIN cache /\ cache'[x] = cache[x])
    ]_vars

\* C8 witness: a call fetched a non-empty v after the clock had advanced, answered
\* v, and the cache holds v stamped with the current time.
C8_Witness ==
  \E p \in Procs :
    /\ Done(p)
    /\ fetches[p] = 1 /\ writes[p] = 1
    /\ now > 0
    /\ \E v \in Values \ {<<>>} :
         /\ Get(response[p]).body = Some(v)
         /\ \E k \in DOMAIN cache : cache[k] = [data |-> v, timestamp |-> now]

\* C9 (duplicate fetch, last write wins): whatever the interleaving, the cache
\* holds for each key exactly the value and timestamp of the cache_feed executed
\* last for that key.
C9_LastWriteWins ==
  /\ DOMAIN cache = DOMAIN lastStore
  /\ \A k \in DOMAIN cache :
       /\ cache[k].data = lastStore[k].data
       /\ cache[k].timestamp = lastStore[k].timestamp

\* C9 witness: two calls on one key have both fetched and both stored, with
\* different non-empty values, before the clock moved - so each missed before the
\* other stored - and the cache holds the one entry stored last.
C9_Witness ==
  \E p, q \in Procs :
    /\ p # q
    /\ Done(p) /\ Done(q)
    /\ fetches[p] = 1 /\ writes[p] = 1
    /\ fetches[q] = 1 /\ writes[q] = 1
    /\ now = 0
    /\ Cardinality(DOMAIN cache) = 1
    /\ Cardinality(stored) = 2
    /\ Get(response[p]).body = Some(<<"a">>)
    /\ Get(response[q]).body = Some(<<"b">>)
    /\ \A k \in DOMAIN cache : cache[k] = [data |-> <<"b">>, timestamp |-> 0]

\* C10 (race-free get/put): under every interleaving of the steps of
\* get_cached_feed and cache_feed, no get fails (no KeyError at line 41), and a
\* value returned by a get is the data of one entry that a cache_feed stored under
\* that key, the same entry whose timestamp the freshness test read.
C10_NoTornRead ==
  \A p \in Procs :
    /\ response[p] # Some(HTTPException(500, "Internal Server Error"))
    /\ (InCall(p) /\ cached_result[p] # None) =>
         /\ checked[p] # None
         /\ \E e \in stored : /\ e.key = Get(cache_key[p])
                              /\ e.data = Get(cached_result[p])
                              /\ e.timestamp = Get(checked[p]).timestamp

\* C10 witness: a get returned the data of the entry it had read although another
\* worker replaced the entry under the same key by one with other data before the
\* get was over.
C10_Witness ==
  \E p \in Procs :
    /\ pc[p] = "if_cached"
    /\ cached_result[p] # None
    /\ cache[Get(cache_key[p])].data # Get(cached_result[p])

\* ------------------------------------------------------------------ C11
InGet(p) == pc[p] \in {"get_member", "get_entry", "get_check", "get_data"}

\* C11 (no sliding expiration): every step of get_cached_feed, whether it finds the
\* key missing, the entry expired or the entry fresh, leaves the whole cache (keys,
\* values and timestamps) unchanged; consequently the stamp that a freshness test
\* reads is the stamp some cache_feed wrote under that key, however many reads came
\* in between, and an entry read at age CACHE_TTL or more is absent.
C11_NoSlidingExpiration ==
  [][\A p \in Procs :
       /\ (InGet(p) /\ pc'[p] # pc[p]) => cache' = cache
       /\ (pc[p] = "get_check" /\ pc'[p] # pc[p]) =>
            LET c == Get(checked'[p])
            IN /\ \E e \in stored : e.key = Get(cache_key[p]) /\ e.timestamp = c.timestamp
               /\ (c.at - c.timestamp >= CACHE_TTL) => cached_result'[p] = None
    ]_vars

\* C11 witness: the only entry ever stored was served from the cache to one worker,
\* and later another worker's read found that same entry expired at age CACHE_TTL.
C11_Witness ==
  \E p, q \in Procs :
    /\ p # q
    /\ Cardinality(stored) = 1
    /\ Done(q) /\ IsSuccess(Get(response[q])) /\ probes[q] = 1 /\ fetches[q] = 0
    /\ pc[p] = "fetch"
    /\ checked[p] # None
    /\ Get(checked[p]).at - Get(checked[p]).timestamp = CACHE_TTL

\* ------------------------------------------------------------------ C12
\* C12 (put overwrites and restamps): cache_feed can always be executed once the
\* handler has reached it and ends the call with a success; after it the cache
\* has, under the call's key, the one entry made of the new value and the current
\* time, whether or not an entry (fresh or expired) was there before, and no key
\* is added besides; that entry passes the freshness test up to CACHE_TTL - 1
\* seconds later and fails it CACHE_TTL seconds later.
C12_PutOverwritesAndRestamps ==
  /\ [](\A p \in active : pc[p] = "store" => ENABLED cache_feed(p))
  /\ [][\A p \in Procs :
          (pc[p] = "store" /\ pc'[p] = "idle") =>
            LET k == Get(cache_key[p])
                v == Get(data[p])
            IN /\ DOMAIN cache' = DOMAIN cache \cup {k}
               /\ cache'[k] = [data |-> v, timestamp |-> now]
               /\ IsFresh(cache'[k], now + CACHE_TTL - 1)
               /\ ~IsFresh(cache'[k], now + CACHE_TTL)
               /\ IsSuccess(Get(response'[p]))
       ]_vars

\* C12 witness: a call has just stored over an entry of the same key that had
\* expired, and another call stored over an entry that was still fresh.
C12_Witness ==
  \E p \in Procs, k \in DOMAIN cache :
    /\ Done(p) /\ writes[p] = 1
    /\ cache[k].timestamp = now
    /\ \E e \in stored : e.key = k /\ now - e.timestamp >= CACHE_TTL
    /\ \E e1, e2 \in stored :
         /\ e1.key = k /\ e2.key = k
         /\ e1.timestamp < e2.timestamp
         /\ e2.timestamp - e1.timestamp < CACHE_TTL

\* ------------------------------------------------------------------ C13
\* index of the last occurrence of character c in s[1..i], 0 if there is none
RECURSIVE FindLast(_, _, _)
FindLast(s, c, i) == IF i = 0 THEN 0 ELSE IF s[i] = c THEN i ELSE FindLast(s, c, i - 1)

\* the host of an authority, as urllib reads it (SplitResult.hostname): what
\* follows the last "@", up to the first ":" (or, after "[", up to "]"),
\* lower-cased; the empty string stands for no host
HostOf(netloc) ==
  LET a == FindLast(netloc, "@", Len(netloc))
      hostinfo == SubSeq(netloc, a + 1, Len(netloc))
      b == Find(hostinfo, {"["}, 1)
      bracketed == SubSeq(hostinfo, b + 1, Len(hostinfo))
      e == IF b > 0 THEN Find(bracketed, {"]"}, 1) ELSE Find(hostinfo, {":"}, 1)
      from == IF b > 0 THEN bracketed ELSE hostinfo
  IN LowerStr(IF e = 0 THEN from ELSE SubSeq(from, 1, e - 1))

\* C13 (URL validator characterisation): is_valid_url returns a boolean for every
\* candidate string and touches nothing; it returns true only if the parser does
\* not raise, the scheme is http or https and the host is non-empty, and false
\* for every other candidate.
C13_ValidatorCharacterisation ==
  verdict # None =>
    LET result == urlparse(cand)
    IN /\ Get(verdict) \in BOOLEAN
       /\ cache = <<>>
       /\ Get(verdict) = TRUE =>
            /\ ~result.raised
            /\ result.scheme \in {HTTP, HTTPS}
            /\ HostOf(result.netloc) # <<>>

\* ------------------------------------------------------------------ C14
\* the call of worker p has no tag or the empty tag
TagFalsy(p) == xml_item_tag[p] \in {None, Some(<<>>)}

\* the key of the same url and size with the other of the two falsy tags
OtherFalsyKey(p) ==
  build_cache_key(Get(url[p]), size[p],
                  IF xml_item_tag[p] = None THEN Some(<<>>) ELSE None)

\* C14 as claimed (empty tag and absent tag share a cache key): a call without a
\* tag and a call with the empty tag, for the same url and size, have the same
\* cache key, so that when an unexpired entry is stored under the key of the one,
\* the other is served from the cache.
C14_EmptyAndAbsentTagShareKey ==
  \A p \in Procs :
    (InCall(p) /\ TagFalsy(p)) =>
      /\ Get(cache_key[p]) = OtherFalsyKey(p)
      /\ (/\ OtherFalsyKey(p) \in DOMAIN cache
          /\ now - cache[OtherFalsyKey(p)].timestamp < CACHE_TTL) => cached_result[p] # None

\* C14 amended: a call without a tag and a call with the empty tag, for the same
\* url and size, pass the same empty options to preview_feed but have different
\* cache keys (url:size:None and url:size:); a call of the one whose own key is
\* not in the cache misses and invokes preview_feed, whatever is stored under the
\* key of the other.
C14_EmptyAndAbsentTagAmended ==
  \A p \in Procs :
    (InCall(p) /\ TagFalsy(p)) =>
      /\ Get(cache_key[p]) # OtherFalsyKey(p)
      /\ feed_logic[p] = {}
      /\ Get(cache_key[p]) \notin DOMAIN cache =>
           /\ cached_result[p] = None
           /\ pc[p] # "if_cached" => fetches[p] = 1

\* C14 witness: a call with the empty tag is inside preview_feed while the key of
\* the same url and size without a tag holds an unexpired, non-empty entry.
C14_Witness ==
  \E p \in Procs :
    /\ pc[p] = "fetch"
    /\ xml_item_tag[p] = Some(<<>>)
    /\ fetches[p] = 1
    /\ OtherFalsyKey(p) \in DOMAIN cache
    /\ cache[OtherFalsyKey(p)].data # <<>>
    /\ now - cache[OtherFalsyKey(p)].timestamp < CACHE_TTL

\* ------------------------------------------------------------------ C15
\* the next statement of worker q, from its lookup on, can be executed
CanStep(q) ==
  /\ pc[q] = "get_member" => ENABLED get_cached_feed_member(q)
  /\ pc[q] = "get_entry" => ENABLED get_cached_feed_entry(q)
  /\ pc[q] = "get_check" => ENABLED get_cached_feed_check(q)
  /\ pc[q] = "get_data" => ENABLED get_cached_feed_data(q)
  /\ pc[q] = "if_cached" => ENABLED if_cached_result(q)
  /\ pc[q] = "fetch" => \A v \in Values : ENABLED preview_feed_returns(q, v)
  /\ pc[q] = "store" => ENABLED cache_feed(q)

\* C15 (fetch does not block the cache): while a call is inside preview_feed,
\* however long it stays there, every other worker that has a call under way can
\* execute its next statement, whichever it is: each statement of get_cached_feed,
\* the test of the cached value with the return of a hit, its own fetch returning,
\* and cache_feed with the return that follows it.
C15_FetchDoesNotBlock ==
  \A p, q \in active : (p # q /\ pc[p] = "fetch") => CanStep(q)

\* C15 witness: a call is inside preview_feed for a key under which the other
\* worker's call, the only other call so far, has stored a non-empty value at the
\* present clock reading and returned it: that store came after this call's
\* lookup, which would otherwise have been a hit.
C15_Witness ==
  \E p, q \in Procs :
    /\ p # q
    /\ calls = 2
    /\ pc[p] = "fetch"
    /\ Done(q) /\ IsSuccess(Get(response[q])) /\ fetches[q] = 1 /\ writes[q] = 1
    /\ Get(cache_key[p]) \in DOMAIN cache
    /\ cache[Get(cache_key[p])].timestamp = now
    /\ cache[Get(cache_key[p])].data # <<>>

\* ------------------------------------------------------------------ C16
\* C16 (per-key isolation): no step of a call changes, adds or removes the entry
\* of a key other than the call's own key (a call that has no key yet changes
\* nothing at all); and the step that ends a call in InvalidURL or in a fetch
\* error leaves the whole cache as it was, the call having written nothing - an
\* expired entry under its own key included.
C16_PerKeyIsolation ==
  [][\A p \in Procs :
       /\ pc'[p] # pc[p] =>
            /\ \A x \in DOMAIN cache \cup DOMAIN cache' :
                 (cache_key[p] = None \/ x # Get(cache_key[p])) =>
                   x \in DOMAIN cache /\ x \in DOMAIN cache' /\ cache'[x] = cache[x]
       /\ (/\ pc[p] # "idle" /\ pc'[p] = "idle"
           /\ \/ IsInvalidURL(Get(response'[p]))
              \/ IsFetchError(Get(response'[p]))) =>
            /\ cache' = cache
            /\ writes'[p] = 0
    ]_vars

\* C16 witness: the latest preview of the request without a tag ended in a fetch
\* error, and the cache still holds, as its only entry, the expired entry of that
\* request's key.
C16_Witness ==
  \E p \in Procs :
    /\ Done(p) /\ IsFetchError(Get(response[p])) /\ writes[p] = 0
    /\ failedReq = {R_plain}
    /\ DOMAIN cache = {build_cache_key(U_ok, 5, None)}
    /\ now - cache[build_cache_key(U_ok, 5, None)].timestamp >= CACHE_TTL

\* ------------------------------------------------------------------ C17
\* how many of the three outcomes a response is
Outcomes(resp) ==
  Cardinality({i \in 1..3 : \/ i = 1 /\ IsSuccess(resp)
                            \/ i = 2 /\ IsInvalidURL(resp)
                            \/ i = 3 /\ IsFetchError(resp)})

\* the response is the fetch error that carries message m
CarriesError(resp, ep, m) ==
  IF ep = "preview"
    THEN resp.kind = "exception" /\ resp.status = 500
         /\ resp.detail = "Error fetching feed: " \o m /\ resp.body = None
    ELSE resp.kind = "html" /\ resp.error_message = "Error fetching feed: " \o m
         /\ resp.feed_content = <<>>

\* the step of worker p in which preview_feed raises ends the call in the fetch
\* error with the raised message, which is no success
FailureSurfaces(p) ==
  (pc[p] = "fetch" /\ pc'[p] = "idle") =>
    /\ raised'[p] # None
    /\ CarriesError(Get(response'[p]), endpoint[p], Get(raised'[p]))
    /\ ~IsSuccess(Get(response'[p]))

\* C17 as claimed (failures are always surfaced as typed errors): every call ends
\* in exactly one of a success value, InvalidURL and a fetch error; when
\* preview_feed raises, the call ends in the fetch error carrying the raised
\* message, never in a success - neither an expired entry's value nor an empty
\* default.
C17_TypedOutcomes ==
  [][\A p \in Procs :
       /\ (pc[p] # "idle" /\ pc'[p] = "idle") => Outcomes(Get(response'[p])) = 1
       /\ FailureSurfaces(p)
    ]_vars

\* C17 amended: every call ends in exactly one of a success value, InvalidURL and
\* a fetch error, except GET / with a missing or empty url, which ends in none of
\* them: it renders the empty form; when preview_feed raises, the call ends in the
\* fetch error carrying the raised message, never in a success - neither an
\* expired entry's value nor an empty default.
C17_TypedOutcomesAmended ==
  [][\A p \in Procs :
       /\ (pc[p] # "idle" /\ pc'[p] = "idle") =>
            IF endpoint[p] = "pretty" /\ ~Truthy(url[p])
              THEN IsBlankPage(Get(response'[p])) /\ Outcomes(Get(response'[p])) = 0
              ELSE Outcomes(Get(response'[p])) = 1
       /\ FailureSurfaces(p)
    ]_vars

\* C17 witness: preview_feed raised "timeout" in a call of GET / whose key holds an
\* expired, non-empty entry; the page shows the error with that message and no
\* feed content.
C17_Witness ==
  \E p \in Procs :
    /\ Done(p)
    /\ raised[p] = Some("timeout")
    /\ Get(response[p]) = HTMLResponse("Error fetching feed: timeout", <<>>)
    /\ failedReq = {R_ten}
    /\ build_cache_key(U_ok, 10, None) \in DOMAIN cache
    /\ cache[build_cache_key(U_ok, 10, None)].data # <<>>
    /\ now - cache[build_cache_key(U_ok, 10, None)].timestamp >= CACHE_TTL

\* ------------------------------------------------------------------ C18
\* C18 (fetch arguments): preview_feed is invoked exactly on the miss path, and
\* each invocation gets the call's url as it came in, limit_rows equal to the
\* call's size, and as feed_logic the single pair xml_item_tag -> tag when the tag
\* is a non-empty string and the empty dict when the tag is missing or empty.
C18_FetchArguments ==
  \A p \in Procs :
    /\ fetch_args[p] # None <=> pc[p] \in {"fetch", "store"}
    /\ pc[p] \in {"fetch", "store"} =>
         /\ cached_result[p] = None \/ Get(cached_result[p]) = <<>>
         /\ Get(fetch_args[p]) =
              [url |-> Get(url[p]),
               limit_rows |-> size[p],
               feed_logic |->
                 IF xml_item_tag[p] # None /\ Get(xml_item_tag[p]) # <<>>
                   THEN {<<"xml_item_tag", Get(xml_item_tag[p])>>}
                   ELSE {}]

\* C18 witness: a call with size 5 and the tag spelled None is inside preview_feed
\* with that tag as the only option, after a call with the empty tag fetched with
\* no option and stored.
C18_Witness ==
  \E p \in Procs :
    /\ pc[p] = "fetch"
    /\ xml_item_tag[p] = Some(<<"N", "o", "n", "e">>)
    /\ Get(fetch_args[p]) = [url |-> U_ok, limit_rows |-> 5,
                             feed_logic |-> {<<"xml_item_tag", <<"N", "o", "n", "e">>>>}]
    /\ build_cache_key(U_ok, 5, Some(<<>>)) \in DOMAIN cache

\* ------------------------------------------------------------------ C19
\* two calls past validation with the same arguments have the same key and the
\* same fetch options, and the same fetch arguments once both are on the miss
\* path, whichever handler each of them runs in
SameLocals(p, q) ==
  (/\ pc[p] \notin {"idle", "validate"}
   /\ pc[q] \notin {"idle", "validate"}
   /\ MyReq(p) = MyReq(q)) =>
     /\ cache_key[p] = cache_key[q]
     /\ feed_logic[p] = feed_logic[q]
     /\ (fetch_args[p] # None /\ fetch_args[q] # None) => fetch_args[p] = fetch_args[q]

\* what a step of a call with a non-empty url does to the call and to the cache,
\* stated without regard to the handler it runs in (only the rendering of the
\* response, inside Carries and IsInvalidURL, looks at the handler)
SameSteps(p) ==
  /\ (pc[p] = "validate" /\ pc'[p] # pc[p] /\ Truthy(url[p])) =>
       /\ cache' = cache
       /\ IF is_valid_url(Get(url[p]))
            THEN /\ pc'[p] = "get_member"
                 /\ cache_key'[p] = Some(build_cache_key(Get(url[p]), size[p], xml_item_tag[p]))
                 /\ feed_logic'[p] = build_feed_logic(xml_item_tag[p])
            ELSE pc'[p] = "idle" /\ IsInvalidURL(Get(response'[p]))
  /\ (pc[p] = "if_cached" /\ pc'[p] # pc[p]) =>
       /\ cache' = cache
       /\ IF Truthy(cached_result[p])
            THEN /\ pc'[p] = "idle"
                 /\ Carries(Get(response'[p]), endpoint[p], Get(cached_result[p]))
            ELSE /\ pc'[p] = "fetch"
                 /\ fetch_args'[p] = Some([url |-> Get(url[p]), feed_logic |-> feed_logic[p],
                                           limit_rows |-> size[p]])
  /\ (pc[p] = "store" /\ pc'[p] # pc[p]) =>
       /\ pc'[p] = "idle"
       /\ Carries(Get(response'[p]), endpoint[p], Get(data[p]))
       /\ Get(cache_key[p]) \in DOMAIN cache'
       /\ cache'[Get(cache_key[p])] = [data |-> Get(data[p]), timestamp |-> now]

\* C19 (the two entry points are the same orchestrator over one shared cache): for
\* calls with a non-empty url, GET / and GET /preview take the same validate,
\* build-key, lookup, fetch and store steps, with the same key and the same fetch
\* arguments for the same request, and the same effect on the one cache; the
\* handlers differ only in how the outcome is rendered.
C19_SameOrchestrator ==
  /\ [](\A p, q \in Procs : SameLocals(p, q))
  /\ [][\A p \in Procs : SameSteps(p)]_vars

\* C19 witness: the only entry ever stored was stored by a GET /preview call, and
\* a GET / call has it in hand, unexpired, as a cache hit.
C19_Witness ==
  \E p, q \in Procs :
    /\ p # q
    /\ calls = 2
    /\ Cardinality(stored) = 1
    /\ Done(q) /\ writes[q] = 1 /\ Get(response[q]).kind = "json"
    /\ pc[p] = "if_cached"
    /\ endpoint[p] = "pretty"
    /\ Truthy(cached_result[p])
    /\ now > 0

\* ------------------------------------------------------------------ C20
\* every key of the cache is the key of an offered request whose url passes
\* is_valid_url, and its entry is one that a cache_feed stored: a value that
\* preview_feed returned, stamped no later than now
KeysAccountedFor ==
  \A k \in DOMAIN cache :
    /\ \E r \in offered :
         /\ ValidUrl(r.url)
         /\ k = build_cache_key(Get(r.url), r.size, r.xml_item_tag)
    /\ cache[k].data \in Values
    /\ cache[k].timestamp <= now
    /\ [key |-> k, data |-> cache[k].data, timestamp |-> cache[k].timestamp] \in stored

\* C20 (cache contents invariant): no step removes a key from the cache; an entry,
\* expired or not, changes only in the cache_feed step of a call of its key, so
\* an expired entry stays as it is until it is overwritten; and every key in the
\* cache was built from a request whose url passed is_valid_url and whose
\* preview_feed returned a value.
C20_CacheContents ==
  /\ [](KeysAccountedFor)
  /\ [][/\ DOMAIN cache \subseteq DOMAIN cache'
        /\ \A k \in DOMAIN cache :
             cache'[k] # cache[k] =>
               \E p \in Procs : /\ pc[p] = "store" /\ pc'[p] = "idle"
                                /\ cache_key[p] = Some(k)
                                /\ is_valid_url(Get(url[p]))
                                /\ data[p] # None
       ]_vars

\* C20 witness: a lookup has found the entry of its key expired and the call is
\* inside preview_feed, while the cache still holds that entry, with the stamp the
\* lookup read, next to the entry of another key.
C20_Witness ==
  \E p \in Procs :
    /\ pc[p] = "fetch"
    /\ checked[p] # None
    /\ Get(checked[p]).at - Get(checked[p]).timestamp >= CACHE_TTL
    /\ Get(cache_key[p]) \in DOMAIN cache
    /\ cache[Get(cache_key[p])].timestamp = Get(checked[p]).timestamp
    /\ Cardinality(DOMAIN cache) = 2

====
